---- MODULE Spec2Model ----
(***************************************************************************)
(* VarAnnotator: the rate-limited REST client (scripts/ensembl_client.py)  *)
(* and the annotation pipeline (scripts/annotate_variants_ensembl.py).     *)
(*                                                                         *)
(* The specifications share the module's variables, among them:            *)
(*   SpecLimiter   worker threads calling _check_rate_limit concurrently   *)
(*   SpecRest      one call of perform_rest_action against a server whose  *)
(*                 answers are chosen freely at every attempt              *)
(*   SpecPipeline  one run of process_vcf, the service's answer to every   *)
(*                 batch chosen freely                                     *)
(* Each leaves the variables of the others at their idle values.           *)
(* Time is counted in ticks, TicksPerSec ticks to the second.              *)
(***************************************************************************)
EXTENDS Integers, Sequences, FiniteSets, TLC

VARIABLES
    \* ---- EnsemblRestClient class state and the clock
    now,            \* time.time(), in ticks
    req_count,      \* EnsemblRestClient._req_count
    last_reset,     \* EnsemblRestClient._last_reset
    global_lock,    \* EnsemblRestClient._global_lock: its owner, or NoThread
    reqs_per_sec,   \* self.reqs_per_sec of the one client of a run
    \* ---- each thread inside _check_rate_limit
    pc,             \* position of each thread
    wake_at,        \* the time before which time.sleep(sleep_time) cannot return
    slept,          \* the thread's current call took the sleeping branch
    calls,          \* completed _check_rate_limit calls of each thread
    window_admits,  \* calls that returned since the window start was last assigned
    \* ---- one call of perform_rest_action, made by thread RestCaller
    retries,        \* the parameter retries
    attempt,        \* the loop variable attempt
    responses,      \* what urlopen produced at each attempt so far
    sleep_duration, \* the argument of the latest backoff time.sleep
    sleeps,         \* backoff time.sleep calls made by perform_rest_action
    result,         \* what the call handed to its caller
    log,            \* kinds of logging.error / logging.warning messages written
    \* ---- one run of process_vcf
    stage,          \* where the main thread is in process_vcf
    records,        \* records
    record_map,     \* record_map: query string -> index
    batch_size,     \* --batch_size
    max_workers,    \* --max_workers
    all_dbsnp_ids,  \* all_dbsnp_ids
    all_gene_annotations, \* all_gene_annotations
    futures,        \* the futures of the current executor, in submission order
    frequencies,    \* frequencies: id -> resolved frequency
    rows,           \* the data rows written to the output file
    emitted,        \* turns of the writing loop completed
    requests,       \* calls made to each service by the run
    vep_responses,  \* the entries the main thread handled in its latest VEP turn
    \* ---- the batching loops of process_vcf, on their own
    work_list,      \* vep_variants, or all_dbsnp_ids before the '.' are left out
    pass,           \* which loop: "vep" or "freq"
    chunk,          \* batch_size / batch_size_freq
    batches,        \* vep_batches / variation_batches, once built
    \* ---- the frequency selection of process_vcf, on its own
    variant,        \* the record the id belongs to
    populations,    \* variant_data['populations']
    target_populations, \* --target_populations
    resolved,       \* frequencies[dbsnp_id], once stored
    \* ---- normalize_alleles and complement_allele, on their own
    ref,            \* the argument ref, a string as the list of its characters
    alt,            \* the argument alt
    normalized,     \* what normalize_alleles returned: <<ref, alt>>
    allele_in,      \* the argument of complement_allele
    complemented,   \* what complement_allele returned, for each call made
    \* ---- one GET /variants request to the web application (app.py)
    status_file,    \* status_data['status'] of STATUS_FILE_PATH, or "absent"
    variants_df,    \* the module-level DataFrame: "empty" or "rows"
    query,          \* the query parameters of the request
    response,       \* the (body, status code) pair get_variants returned
    \* ---- the as_completed loop of the consequence pass, on its own
    answers         \* the response the service gave to each batch

rlVars == <<now, req_count, last_reset, global_lock, reqs_per_sec,
            pc, wake_at, slept, calls, window_admits>>

restVars == <<retries, attempt, responses, sleep_duration, sleeps, result, log>>

pipeVars == <<stage, records, record_map, batch_size, max_workers, all_dbsnp_ids,
              all_gene_annotations, futures, frequencies, rows,
              emitted, requests, vep_responses>>

batchVars == <<work_list, pass, chunk, batches>>

resolverVars == <<variant, populations, target_populations, resolved>>

alleleVars == <<ref, alt, normalized, allele_in, complemented>>

appVars == <<status_file, variants_df, query, response>>

orderVars == <<answers>>

fnVars == <<batchVars, resolverVars, alleleVars, appVars, orderVars>>

vars == <<rlVars, restVars, pipeVars, fnVars>>

\* ---------------------------------------------------------------- bounds
NThreads == 2
MaxCap == 2
MaxCalls == 3
MaxTime == 5
TicksPerSec == 2

Threads == 1..NThreads
NoThread == 0

\* ------------------------------------------------------ _check_rate_limit

\* `with EnsemblRestClient._global_lock:` entered
RLAcquire(t) ==
    /\ pc[t] = "rl_wait"
    /\ global_lock = NoThread
    /\ global_lock' = t
    /\ pc' = [pc EXCEPT ![t] = "rl_locked"]
    /\ UNCHANGED <<now, req_count, last_reset, reqs_per_sec, wake_at, slept,
                   calls, window_admits>>

\* elapsed = current_time - _last_reset
Elapsed == now - last_reset

\* `if elapsed >= 1:` the counter after the optional reset
CountAfterReset == IF Elapsed >= TicksPerSec THEN 0 ELSE req_count

\* `if elapsed >= 1:` the window start after the optional reset
ResetAfterCheck == IF Elapsed >= TicksPerSec THEN now ELSE last_reset

\* a mutant of HasBudget: the comparison admits one request too many
HasBudgetOffByOne(count, cap) == count <= cap

\* `if EnsemblRestClient._req_count < self.reqs_per_sec:`
HasBudget(count, cap) == count < cap

\* admitted at once: the counter is incremented and the call returns
RLAdmit(t) ==
    /\ pc[t] = "rl_locked"
    /\ HasBudget(CountAfterReset, reqs_per_sec)
    /\ req_count' = CountAfterReset + 1
    /\ last_reset' = ResetAfterCheck
    /\ window_admits' = (IF Elapsed >= TicksPerSec THEN 0 ELSE window_admits) + 1
    /\ global_lock' = NoThread
    /\ pc' = [pc EXCEPT ![t] = "rl_done"]
    /\ UNCHANGED <<now, reqs_per_sec, wake_at, slept, calls>>

\* a mutant of SleepTime: the remaining time of the window is forgotten
SleepTimeNone(elapsed) == 0

\* sleep_time = 1 - elapsed
SleepTime(elapsed) == TicksPerSec - elapsed

\* no budget left: time.sleep(sleep_time) is entered with the lock held
RLSleep(t) ==
    /\ pc[t] = "rl_locked"
    /\ ~HasBudget(CountAfterReset, reqs_per_sec)
    /\ req_count' = CountAfterReset
    /\ last_reset' = ResetAfterCheck
    /\ window_admits' = IF Elapsed >= TicksPerSec THEN 0 ELSE window_admits
    /\ wake_at' = [wake_at EXCEPT ![t] =
                      IF SleepTime(Elapsed) > 0 THEN now + SleepTime(Elapsed) ELSE now]
    /\ slept' = [slept EXCEPT ![t] = TRUE]
    /\ pc' = [pc EXCEPT ![t] = "rl_sleep"]
    /\ UNCHANGED <<now, global_lock, reqs_per_sec, calls>>

\* the sleep is over: the counter restarts at 1, the window at the wake-up time
RLWake(t) ==
    /\ pc[t] = "rl_sleep"
    /\ now >= wake_at[t]
    /\ req_count' = 1
    /\ last_reset' = now
    /\ window_admits' = 1
    /\ global_lock' = NoThread
    /\ pc' = [pc EXCEPT ![t] = "rl_done"]
    /\ UNCHANGED <<now, reqs_per_sec, wake_at, slept, calls>>

\* some thread is inside time.sleep and its time has not come
SomeSleeper == \E t \in Threads : pc[t] = "rl_sleep" /\ wake_at[t] > now

\* the clock advances; once the window has elapsed and nobody sleeps, more
\* idle time changes nothing the limiter can observe
Tick ==
    /\ (now < MaxTime /\ Elapsed < TicksPerSec) \/ SomeSleeper
    /\ now' = now + 1
    /\ UNCHANGED <<req_count, last_reset, global_lock, reqs_per_sec,
                   pc, wake_at, slept, calls, window_admits>>

\* ------------------------------------------- threads calling the limiter

\* a worker thread calls self._check_rate_limit()
Call(t) ==
    /\ pc[t] = "idle"
    /\ calls[t] < MaxCalls
    /\ pc' = [pc EXCEPT ![t] = "rl_wait"]
    /\ slept' = [slept EXCEPT ![t] = FALSE]
    /\ UNCHANGED <<now, req_count, last_reset, global_lock, reqs_per_sec,
                   wake_at, calls, window_admits>>

\* the call has returned to the worker
Return(t) ==
    /\ pc[t] = "rl_done"
    /\ pc' = [pc EXCEPT ![t] = "idle"]
    /\ calls' = [calls EXCEPT ![t] = @ + 1]
    /\ UNCHANGED <<now, req_count, last_reset, global_lock, reqs_per_sec,
                   wake_at, slept, window_admits>>

\* time.time() moves on by one tick, for runs without end. The limiter reads
\* the clock by differences only (current_time - _last_reset, and the time
\* left of a sleep), so the origin of time is moved along with the clock:
\* now stays, the window start and the pending wake-up times move back
Pass ==
    /\ last_reset' = IF Elapsed < TicksPerSec THEN last_reset - 1 ELSE last_reset
    /\ wake_at' = [t \in Threads |->
                      IF wake_at[t] > now THEN wake_at[t] - 1 ELSE wake_at[t]]
    /\ UNCHANGED <<now, req_count, global_lock, reqs_per_sec, pc, slept,
                   calls, window_admits>>

\* a worker thread calls self._check_rate_limit(), as often as it likes
Arrive(t) ==
    /\ pc[t] = "idle"
    /\ pc' = [pc EXCEPT ![t] = "rl_wait"]
    /\ slept' = [slept EXCEPT ![t] = FALSE]
    /\ UNCHANGED <<now, req_count, last_reset, global_lock, reqs_per_sec,
                   wake_at, calls, window_admits>>

\* the call has returned to the worker; calls counts up to MaxCalls
Leave(t) ==
    /\ pc[t] = "rl_done"
    /\ pc' = [pc EXCEPT ![t] = "idle"]
    /\ calls' = [calls EXCEPT ![t] = IF @ < MaxCalls THEN @ + 1 ELSE @]
    /\ UNCHANGED <<now, req_count, last_reset, global_lock, reqs_per_sec,
                   wake_at, slept, window_admits>>

\* every thread calls through a client it constructed itself
Clients == Threads
ClientOf(t) == t

\* the counter and the window start a client works on: __init__ assigns
\* server and reqs_per_sec only, and _check_rate_limit reads and writes
\* EnsemblRestClient._req_count and EnsemblRestClient._last_reset, the
\* attributes of the class, whichever instance it is called on
ReqCountOf(c) == req_count
LastResetOf(c) == last_reset

\* class attributes as the class statement leaves them, one client
RLInit ==
    /\ now = 0
    /\ req_count = 0
    /\ last_reset = 0
    /\ global_lock = NoThread
    /\ reqs_per_sec \in 1..MaxCap
    /\ wake_at = [t \in Threads |-> 0]
    /\ slept = [t \in Threads |-> FALSE]
    /\ calls = [t \in Threads |-> 0]
    /\ window_admits = 0

\* --------------------------------------------------- perform_rest_action

\* the thread that makes the call of perform_rest_action
RestCaller == 1

MaxRetries == 3

\* the value a function that ends without a return statement hands back
None == "None"
EmptyDict == "{}"
NoHeader == ""

\* a value handed back by `return`
Returned(v) == [kind |-> "return", value |-> v, code |-> 0]

\* an HTTPError leaving the function
Raised(code) == [kind |-> "raise", value |-> "HTTPError", code |-> code]

\* the call is still running
Pending == [kind |-> "pending", value |-> "", code |-> 0]

\* response bodies: empty, JSON documents, and text that is not JSON
WellFormedBodies == {"", "{}", "[]", "[e]", "{k}"}
MalformedBody == "<html>"

\* `if content: json.loads(content) else: {}`
JsonLoads(content) == IF content = "" THEN EmptyDict ELSE content

\* `e.code in [500, 502, 503, 504]`
RetryableStatuses == {500, 502, 503, 504}

\* the HTTP error statuses the server of the model answers with
ErrorStatuses == {400, 404, 413, 429, 500, 501, 503}

\* values of the Retry-After header: absent, seconds, or an HTTP date
RetryAfterValues == {NoHeader, "0", "5", "soon"}

\* float(retry_after) succeeds
IsFloat(s) == s \in {"0", "5"}

\* float(retry_after), in seconds
FloatOf(s) == IF s = "5" THEN 5 ELSE 0

\* random.uniform(0, 1), in ticks
Jitter == 0..(TicksPerSec - 1)

RECURSIVE Pow2(_)
\* 2 ** n
Pow2(n) == IF n <= 0 THEN 1 ELSE 2 * Pow2(n - 1)

\* a mutant of Backoff: the delay grows linearly with the attempt
BackoffLinear(n) == n * TicksPerSec

\* 2 ** attempt seconds, in ticks
Backoff(n) == Pow2(n) * TicksPerSec

\* `if retry_after: try float(retry_after) except ValueError: default`
RetryDelay(retry_after, default) ==
    IF retry_after # NoHeader /\ IsFloat(retry_after)
    THEN FloatOf(retry_after) * TicksPerSec
    ELSE default

\* what the callers take for "no data": `response is None or response == {}`
IsFailure(v) == v = None \/ v = EmptyDict

\* one entry of the history of attempts
Resp(kind, code, body) == [kind |-> kind, code |-> code, body |-> body]

\* a mutant of HasNextAttempt: range(1, retries + 2) allows one attempt more
HasNextAttemptLong(a, r) == a <= r

\* a mutant of HasNextAttempt: range(1, retries) stops one attempt early
HasNextAttemptShort(a, r) == a + 1 < r

\* `for attempt in range(1, retries + 1)` has another value after a
HasNextAttempt(a, r) == a + 1 <= r

\* a mutant of NextAttempt: only the first attempt goes through the limiter
NextAttemptUnthrottled ==
    /\ pc[RestCaller] = "loop"
    /\ HasNextAttempt(attempt, retries)
    /\ attempt' = attempt + 1
    /\ pc' = [pc EXCEPT ![RestCaller] = IF attempt = 0 THEN "rl_wait" ELSE "urlopen"]
    /\ slept' = [slept EXCEPT ![RestCaller] = FALSE]
    /\ UNCHANGED <<now, req_count, last_reset, global_lock, reqs_per_sec,
                   wake_at, calls, window_admits>>
    /\ UNCHANGED <<retries, responses, sleep_duration, sleeps, result, log>>
    /\ UNCHANGED <<pipeVars, fnVars>>

\* the loop takes its next value and calls self._check_rate_limit()
NextAttempt ==
    /\ pc[RestCaller] = "loop"
    /\ HasNextAttempt(attempt, retries)
    /\ attempt' = attempt + 1
    /\ pc' = [pc EXCEPT ![RestCaller] = "rl_wait"]
    /\ slept' = [slept EXCEPT ![RestCaller] = FALSE]
    /\ UNCHANGED <<now, req_count, last_reset, global_lock, reqs_per_sec,
                   wake_at, calls, window_admits>>
    /\ UNCHANGED <<retries, responses, sleep_duration, sleeps, result, log>>
    /\ UNCHANGED <<pipeVars, fnVars>>

\* the loop is exhausted: the function ends without a return statement
LoopExhausted ==
    /\ pc[RestCaller] = "loop"
    /\ ~HasNextAttempt(attempt, retries)
    /\ result' = Returned(None)
    /\ pc' = [pc EXCEPT ![RestCaller] = "returned"]
    /\ UNCHANGED <<now, req_count, last_reset, global_lock, reqs_per_sec,
                   wake_at, slept, calls, window_admits>>
    /\ UNCHANGED <<retries, attempt, responses, sleep_duration, sleeps, log>>
    /\ UNCHANGED <<pipeVars, fnVars>>

\* _check_rate_limit has returned: the request is built and urlopen called
Admitted ==
    /\ pc[RestCaller] = "rl_done"
    /\ pc' = [pc EXCEPT ![RestCaller] = "urlopen"]
    /\ calls' = [calls EXCEPT ![RestCaller] = @ + 1]
    /\ UNCHANGED <<now, req_count, last_reset, global_lock, reqs_per_sec,
                   wake_at, slept, window_admits>>
    /\ UNCHANGED <<restVars, pipeVars, fnVars>>

\* the attempt ends the call with `return v`
ReturnValue(resp, v, msgs) ==
    /\ responses' = Append(responses, resp)
    /\ result' = Returned(v)
    /\ log' = log \cup msgs
    /\ pc' = [pc EXCEPT ![RestCaller] = "returned"]
    /\ UNCHANGED <<now, req_count, last_reset, global_lock, reqs_per_sec,
                   wake_at, slept, calls, window_admits>>
    /\ UNCHANGED <<retries, attempt, sleep_duration, sleeps>>
    /\ UNCHANGED <<pipeVars, fnVars>>

\* the attempt ends with time.sleep(d) and `continue`
SleepAndContinue(resp, d, msgs) ==
    /\ responses' = Append(responses, resp)
    /\ sleep_duration' = d
    /\ sleeps' = sleeps + 1
    /\ now' = now + d
    /\ log' = log \cup msgs
    /\ pc' = [pc EXCEPT ![RestCaller] = "loop"]
    /\ UNCHANGED <<req_count, last_reset, global_lock, reqs_per_sec,
                   wake_at, slept, calls, window_admits>>
    /\ UNCHANGED <<retries, attempt, result>>
    /\ UNCHANGED <<pipeVars, fnVars>>

\* urlopen succeeds and the body parses
HttpOk ==
    /\ pc[RestCaller] = "urlopen"
    /\ \E body \in WellFormedBodies :
          ReturnValue(Resp("ok", 200, body), JsonLoads(body), {})

\* HTTPError 429
Http429 ==
    /\ pc[RestCaller] = "urlopen"
    /\ \E ra \in RetryAfterValues, j \in Jitter :
          SleepAndContinue(Resp("http", 429, ""),
                           RetryDelay(ra, 1 * TicksPerSec) + j,
                           {"HTTPError", "429 retry"})

\* a mutant of Http5xx: a server error ends the call like a non-retryable one
Http5xxGivesUp ==
    /\ pc[RestCaller] = "urlopen"
    /\ \E code \in ErrorStatuses \cap RetryableStatuses :
          ReturnValue(Resp("http", code, ""), EmptyDict, {"HTTPError"})

\* HTTPError 500, 502, 503 or 504
Http5xx ==
    /\ pc[RestCaller] = "urlopen"
    /\ \E code \in ErrorStatuses \cap RetryableStatuses,
          ra \in RetryAfterValues, j \in Jitter :
          SleepAndContinue(Resp("http", code, ""),
                           RetryDelay(ra, Backoff(attempt)) + j,
                           {"HTTPError", "5xx retry"})

\* HTTPError 413
Http413 ==
    /\ pc[RestCaller] = "urlopen"
    /\ ReturnValue(Resp("http", 413, ""), EmptyDict,
                   {"HTTPError", "reduce batch size"})

\* a mutant of HttpOther: any other status is retried like a server error
HttpOtherRetried ==
    /\ pc[RestCaller] = "urlopen"
    /\ \E code \in ErrorStatuses \ (RetryableStatuses \cup {429, 413}), j \in Jitter :
          SleepAndContinue(Resp("http", code, ""), Backoff(attempt) + j,
                           {"HTTPError", "5xx retry"})

\* HTTPError with any other status
HttpOther ==
    /\ pc[RestCaller] = "urlopen"
    /\ \E code \in ErrorStatuses \ (RetryableStatuses \cup {429, 413}) :
          ReturnValue(Resp("http", code, ""), EmptyDict,
                      {"HTTPError", "non-retryable"})

\* `if attempt < retries:` sleep and continue, `else:` return {}
RetryOrGiveUp(resp, msg) ==
    IF attempt < retries
    THEN \E j \in Jitter : SleepAndContinue(resp, Backoff(attempt) + j, {msg})
    ELSE ReturnValue(resp, EmptyDict, {msg, "max retries"})

\* URLError: connection refused, timeout, name resolution
UrlError ==
    /\ pc[RestCaller] = "urlopen"
    /\ RetryOrGiveUp(Resp("urlerror", 0, ""), "URLError")

\* any other exception, json.loads failing on the body of a 200 included
OtherException ==
    /\ pc[RestCaller] = "urlopen"
    /\ \/ RetryOrGiveUp(Resp("exception", 0, ""), "Exception")
       \/ RetryOrGiveUp(Resp("exception", 200, MalformedBody), "Exception")

\* no call of perform_rest_action is running
RestIdle ==
    /\ retries = 0
    /\ attempt = 0
    /\ responses = <<>>
    /\ sleep_duration = 0
    /\ sleeps = 0
    /\ result = Pending
    /\ log = {}

\* perform_rest_action entered with its arguments prepared
RestInit ==
    /\ retries \in 1..MaxRetries
    /\ attempt = 0
    /\ responses = <<>>
    /\ sleep_duration = 0
    /\ sleeps = 0
    /\ result = Pending
    /\ log = {}

\* ------------------------------------------------------------ process_vcf
\* The transport call of a batch is represented by the value it hands back
\* (RestResults); the workers' use of the rate limiter is left to SpecRest.

MaxRecords == 2
MaxBatchSize == 2
MaxWorkers == 2
MaxFetchCalls == 2

\* what the reading loop sets and nothing changes afterwards
inputVars == <<records, record_map, batch_size, max_workers>>

\* the variants a VCF file of the model is made of
Variants ==
    { [CHROM |-> "1", POS |-> 100, REF |-> "A", ALT |-> "G"],
      [CHROM |-> "2", POS |-> 200, REF |-> "C", ALT |-> "T"] }

\* str(pos) inside the f-string
PosStr(p) == IF p = 100 THEN "100" ELSE IF p = 200 THEN "200" ELSE "0"

\* vep_input = f"{chrom} {pos} . {ref} {alt} . . ."
VepInput(v) == <<v.CHROM, PosStr(v.POS), ".", v.REF, v.ALT, ".", ".", ".">>

\* an `input` value of a response entry that no variant of the file produces
UnknownInput == <<"X", "0", ".", "N", "N", ".", ".", ".">>

\* a mutant of Slice: seq[i:i + size + 1], one element too many
SliceOneMore(seq, i, size) ==
    SubSeq(seq, i, IF i + size <= Len(seq) THEN i + size ELSE Len(seq))

\* seq[i:i + size] for the 1-based start i
Slice(seq, i, size) ==
    SubSeq(seq, i, IF i + size - 1 <= Len(seq) THEN i + size - 1 ELSE Len(seq))

\* the starts `range(0, len(seq), size)` yields, 1-based
BatchStarts(n, size) == { i \in 1..n : (i - 1) % size = 0 }

\* the number of batches built from n items
NumBatches(n, size) == Cardinality(BatchStarts(n, size))

\* the list of batches: batch k holds seq[(k-1)*size : k*size]
MakeBatches(seq, size) ==
    [k \in 1..NumBatches(Len(seq), size) |-> Slice(seq, (k - 1) * size + 1, size)]

\* record_map after the reading loop: the last index that wrote each key
RecordMapOf(recs) ==
    [q \in { VepInput(recs[i]) : i \in 1..Len(recs) } |->
        CHOOSE i \in 1..Len(recs) :
            /\ VepInput(recs[i]) = q
            /\ \A j \in 1..Len(recs) : VepInput(recs[j]) = q => j <= i]

\* a future of the executor: queued, running, done (result set) or consumed;
\* future_to_batch keeps the batch it was submitted with
NewFuture == [state |-> "queued", result |-> None, calls |-> 0, batch |-> <<>>]

\* what perform_rest_action can hand back
RestResults == {None} \cup { JsonLoads(b) : b \in WellFormedBodies }

\* `if not vep_responses:` / `if not responses:`
IsFalsy(v) == v \in {None, EmptyDict, "[]"}

\* what the service of the model reports for a variant: the ids of its
\* colocated_variants and the gene_symbol values of its transcript_consequences
EntryValues ==
    << [colocated |-> <<"rs1">>, transcripts |-> <<"", "BRCA1">>],
       [colocated |-> <<"COSM1", "rs2">>, transcripts |-> <<>>],
       [colocated |-> <<"COSM1">>, transcripts |-> <<"">>] >>

\* one element of a VEP response
Entry(input, v) ==
    [input |-> input, colocated |-> v.colocated, transcripts |-> v.transcripts]

\* the first colocated id that starts with 'rs', else '.'
DbsnpIdOf(colocated) ==
    LET rs == { i \in 1..Len(colocated) : colocated[i] \in {"rs1", "rs2"} }
    IN IF rs = {} THEN "."
       ELSE colocated[CHOOSE i \in rs : \A j \in rs : i <= j]

\* the first transcript gene_symbol that is not empty, else 'Intergenic'
GeneOf(transcripts) ==
    LET g == { i \in 1..Len(transcripts) : transcripts[i] # "" }
    IN IF g = {} THEN "Intergenic"
       ELSE transcripts[CHOOSE i \in g : \A j \in g : i <= j]

\* complement_allele, on the one-base alleles of the model ('-' and any
\* other character are left as they are)
ComplementAllele(allele) ==
    CASE allele = "A" -> "T"
      [] allele = "C" -> "G"
      [] allele = "G" -> "C"
      [] allele = "T" -> "A"
      [] OTHER -> allele

\* the services the run calls: NCBI's dbSNP release file, and the VEP and
\* variation endpoints of the Ensembl REST server
Endpoints == {"dbsnp", "vep", "variation"}

NoRequests == [e \in Endpoints |-> 0]

\* one more call to service e
Requested(e) == [requests EXCEPT ![e] = @ + 1]

\* fetch_dbsnp_version(): a request to the NCBI server, before anything else
FetchDbsnpVersion ==
    /\ stage = "start"
    /\ stage' = "read"
    /\ requests' = Requested("dbsnp")
    /\ UNCHANGED <<inputVars, all_dbsnp_ids, all_gene_annotations, futures,
                   frequencies, rows, emitted>>

\* VCF(input_vcf) raises: logger.critical and sys.exit(1)
ReadVcfFails ==
    /\ stage = "read"
    /\ stage' = "exit"
    /\ UNCHANGED <<inputVars, all_dbsnp_ids, all_gene_annotations, futures,
                   frequencies, rows, emitted, requests>>

\* the file is read, the placeholders are set, the VEP batches are submitted
ReadVcf ==
    /\ stage = "read"
    /\ \E n \in 0..MaxRecords : \E recs \in [1..n -> Variants] :
          /\ records' = recs
          /\ record_map' = RecordMapOf(recs)
          /\ all_dbsnp_ids' = [i \in 1..n |-> "."]
          /\ all_gene_annotations' = [i \in 1..n |-> "Intergenic"]
          /\ futures' = [k \in 1..NumBatches(n, batch_size) |->
                            [NewFuture EXCEPT !.batch =
                                MakeBatches([i \in 1..n |-> VepInput(recs[i])],
                                            batch_size)[k]]]
    /\ stage' = "vep"
    /\ UNCHANGED <<batch_size, max_workers, frequencies, rows, emitted, requests>>

\* the queries of the run, in input order
VepVariants == [i \in 1..Len(records) |-> VepInput(records[i])]

\* the batches of the consequence pass
VepBatches == MakeBatches(VepVariants, batch_size)

Running == { k \in 1..Len(futures) : futures[k].state = "running" }
Queued == { k \in 1..Len(futures) : futures[k].state = "queued" }
Done == { k \in 1..Len(futures) : futures[k].state = "done" }

\* a free worker of the pool takes the oldest queued future
StartFuture(k) ==
    /\ stage \in {"vep", "freq"}
    /\ k \in Queued
    /\ \A j \in Queued : k <= j
    /\ Cardinality(Running) < max_workers
    /\ futures' = [futures EXCEPT ![k].state = "running"]
    /\ UNCHANGED <<stage, inputVars, all_dbsnp_ids, all_gene_annotations,
                   frequencies, rows, emitted, requests>>

\* a mutant of FetchVepBatch: the worker stores an id itself
FetchVepBatchStoring(k) ==
    /\ stage = "vep"
    /\ k \in Running
    /\ \E r \in RestResults :
          futures' = [futures EXCEPT ![k] =
                         [@ EXCEPT !.state = "done", !.result = r, !.calls = @ + 1]]
    /\ requests' = Requested("vep")
    /\ all_dbsnp_ids' = [all_dbsnp_ids EXCEPT ![1] = "rs1"]
    /\ UNCHANGED <<stage, inputVars, all_gene_annotations,
                   frequencies, rows, emitted>>

\* fetch_vep_batch: one perform_rest_action call, whose value is the result
FetchVepBatch(k) ==
    /\ stage = "vep"
    /\ k \in Running
    /\ \E r \in RestResults :
          futures' = [futures EXCEPT ![k] =
                         [@ EXCEPT !.state = "done", !.result = r, !.calls = @ + 1]]
    /\ requests' = Requested("vep")
    /\ UNCHANGED <<stage, inputVars, all_dbsnp_ids, all_gene_annotations,
                   frequencies, rows, emitted>>

\* the main thread has handled the future as_completed gave it
Consume(k) ==
    /\ futures' = [futures EXCEPT ![k].state = "consumed"]
    /\ UNCHANGED <<stage, inputVars, rows, emitted, requests>>

\* `if not vep_responses: ... continue`
SkipVepBatch(k) ==
    /\ stage = "vep"
    /\ k \in Done
    /\ IsFalsy(futures[k].result)
    /\ vep_responses' = <<>>
    /\ Consume(k)
    /\ UNCHANGED <<all_dbsnp_ids, all_gene_annotations, frequencies>>

\* the ways the service answers one query: with nothing (0), with one of the
\* entry values under the query's own key, or with an entry under a key that
\* is nobody's
AnswerChoices == 0..(Len(EntryValues) + 1)

RECURSIVE ResponseOf(_, _, _)
\* the response list for the first n queries of a batch answered as `choice`
ResponseOf(batch, choice, n) ==
    IF n = 0 THEN <<>>
    ELSE LET before == ResponseOf(batch, choice, n - 1)
         IN IF choice[n] = 0 THEN before
            ELSE IF choice[n] <= Len(EntryValues)
                 THEN Append(before, Entry(batch[n], EntryValues[choice[n]]))
                 ELSE Append(before, Entry(UnknownInput, EntryValues[1]))

\* the lists of entries the service can answer the first n queries with
EntryLists(batch, n) ==
    { ResponseOf(batch, choice, n) : choice \in [1..n -> AnswerChoices] }

RECURSIVE ApplyEntriesByPosition(_, _, _, _)
\* a mutant of ApplyEntries: entry i of the response is written at index i
ApplyEntriesByPosition(entries, i, ids, genes) ==
    IF i > Len(entries) \/ i > Len(ids) THEN [ids |-> ids, genes |-> genes]
    ELSE ApplyEntriesByPosition(entries, i + 1,
             [ids EXCEPT ![i] = DbsnpIdOf(entries[i].colocated)],
             [genes EXCEPT ![i] = GeneOf(entries[i].transcripts)])

RECURSIVE ApplyEntriesStopAtUnknown(_, _, _, _)
\* a mutant of ApplyEntries: an entry with an unknown `input` ends the loop
ApplyEntriesStopAtUnknown(entries, i, ids, genes) ==
    IF i > Len(entries) \/ entries[i].input \notin DOMAIN record_map
    THEN [ids |-> ids, genes |-> genes]
    ELSE ApplyEntriesStopAtUnknown(entries, i + 1,
             [ids EXCEPT ![record_map[entries[i].input]] =
                    DbsnpIdOf(entries[i].colocated)],
             [genes EXCEPT ![record_map[entries[i].input]] =
                    GeneOf(entries[i].transcripts)])

RECURSIVE ApplyEntries(_, _, _, _)
\* `for response in vep_responses`, from entry i on: the arrays afterwards
ApplyEntries(entries, i, ids, genes) ==
    IF i > Len(entries) THEN [ids |-> ids, genes |-> genes]
    ELSE IF entries[i].input \notin DOMAIN record_map
         THEN ApplyEntries(entries, i + 1, ids, genes)
         ELSE ApplyEntries(entries, i + 1,
                 [ids EXCEPT ![record_map[entries[i].input]] =
                        DbsnpIdOf(entries[i].colocated)],
                 [genes EXCEPT ![record_map[entries[i].input]] =
                        GeneOf(entries[i].transcripts)])

\* the arrays take what the entries give
WriteBack(entries) ==
    LET after == ApplyEntries(entries, 1, all_dbsnp_ids, all_gene_annotations)
    IN /\ all_dbsnp_ids' = after.ids
       /\ all_gene_annotations' = after.genes

\* a list of entries is handled to its end
ProcessVepBatch(k) ==
    /\ stage = "vep"
    /\ k \in Done
    /\ futures[k].result = "[e]"
    /\ \E entries \in EntryLists(VepBatches[k], Len(VepBatches[k])) :
          /\ entries # <<>>
          /\ WriteBack(entries)
          /\ vep_responses' = entries
    /\ Consume(k)
    /\ UNCHANGED frequencies

\* an element that is no dict (the keys of a dict payload, say) follows the
\* entries handled so far: .get raises and `except Exception` drops the rest
VepBatchRaises(k) ==
    /\ stage = "vep"
    /\ k \in Done
    /\ \/ /\ futures[k].result = "[e]"
          /\ \E n \in 0..(Len(VepBatches[k]) - 1) :
             \E entries \in EntryLists(VepBatches[k], n) :
                /\ WriteBack(entries)
                /\ vep_responses' = entries
       \/ /\ futures[k].result = "{k}"
          /\ vep_responses' = <<>>
          /\ UNCHANGED <<all_dbsnp_ids, all_gene_annotations>>
    /\ Consume(k)
    /\ UNCHANGED frequencies

AllConsumed == \A k \in 1..Len(futures) : futures[k].state = "consumed"

\* a mutant of RealIds: the test `dbsnp_id != '.'` is lost
RealIdsAll(ids, i) == SubSeq(ids, i, Len(ids))

RECURSIVE RealIds(_, _)
\* [all_dbsnp_ids[idx] for idx in dbsnp_indices]: the ids that are not '.',
\* in index order, from index i on
RealIds(ids, i) ==
    IF i > Len(ids) THEN <<>>
    ELSE IF ids[i] # "." THEN <<ids[i]>> \o RealIds(ids, i + 1)
    ELSE RealIds(ids, i + 1)

\* the batches of the frequency pass
VariationBatches == MakeBatches(RealIds(all_dbsnp_ids, 1), batch_size)

\* a mutant of StartFreqPass: the frequency pass starts as soon as one
\* consequence batch has been handled, the others still out
StartFreqPassEarly ==
    /\ stage = "vep"
    /\ \E k \in 1..Len(futures) : futures[k].state = "consumed"
    /\ stage' = "freq"
    /\ futures' = [k \in 1..Len(VariationBatches) |->
                      [NewFuture EXCEPT !.batch = VariationBatches[k]]]
    /\ UNCHANGED <<inputVars, all_dbsnp_ids, all_gene_annotations, frequencies,
                   rows, emitted, requests>>

\* the first executor is left: the frequency batches are built and submitted
StartFreqPass ==
    /\ stage = "vep"
    /\ AllConsumed
    /\ stage' = "freq"
    /\ futures' = [k \in 1..Len(VariationBatches) |->
                      [NewFuture EXCEPT !.batch = VariationBatches[k]]]
    /\ UNCHANGED <<inputVars, all_dbsnp_ids, all_gene_annotations, frequencies,
                   rows, emitted, requests>>

\* `if response is None or response == {}: ... continue`
MustRetry(v) == v = None \/ v = EmptyDict

\* fetch_population_frequencies_batch: a call that gives None or {} is repeated
FetchFreqRetry(k) ==
    /\ stage = "freq"
    /\ k \in Running
    /\ futures[k].calls < MaxFetchCalls
    /\ \E r \in RestResults : MustRetry(r)
    /\ futures' = [futures EXCEPT ![k].calls = @ + 1]
    /\ requests' = Requested("variation")
    /\ UNCHANGED <<stage, inputVars, all_dbsnp_ids, all_gene_annotations,
                   frequencies, rows, emitted>>

\* fetch_population_frequencies_batch: any other value is returned
FetchFreqBatch(k) ==
    /\ stage = "freq"
    /\ k \in Running
    /\ \E r \in RestResults :
          /\ ~MustRetry(r)
          /\ futures' = [futures EXCEPT ![k] =
                            [@ EXCEPT !.state = "done", !.result = r, !.calls = @ + 1]]
    /\ requests' = Requested("variation")
    /\ UNCHANGED <<stage, inputVars, all_dbsnp_ids, all_gene_annotations,
                   frequencies, rows, emitted>>

\* --target_populations, its default
TargetPopulations == {"gnomADe:NFE", "gnomADg:NFE", "1000GENOMES:phase_3:CEU"}

NoFrequency == [kind |-> "N/A", freq |-> 0, population |-> ""]

\* f"{max_freq} ({max_population})"
FrequencyOf(f, p) == [kind |-> "freq", freq |-> f, population |-> p]

\* one element of variant_data['populations']; frequency -1 stands for None
Pop(name, allele, f) == [population |-> name, allele |-> allele, frequency |-> f]

RECURSIVE MaxPopAnyPopulation(_, _, _, _)
\* a mutant of MaxPop: the test `population_name in target_populations` is lost
MaxPopAnyPopulation(pops, targets, i, best) ==
    IF i > Len(pops) THEN best
    ELSE IF /\ pops[i].frequency # -1
            /\ (best.kind = "N/A" \/ pops[i].frequency > best.freq)
         THEN MaxPopAnyPopulation(pops, targets, i + 1,
                     FrequencyOf(pops[i].frequency, pops[i].population))
         ELSE MaxPopAnyPopulation(pops, targets, i + 1, best)

RECURSIVE MaxPopLastWins(_, _, _, _)
\* a mutant of MaxPop: `freq >= max_freq`, the last of equal frequencies wins
MaxPopLastWins(pops, targets, i, best) ==
    IF i > Len(pops) THEN best
    ELSE IF /\ pops[i].population \in targets
            /\ pops[i].frequency # -1
            /\ (best.kind = "N/A" \/ pops[i].frequency >= best.freq)
         THEN MaxPopLastWins(pops, targets, i + 1,
                     FrequencyOf(pops[i].frequency, pops[i].population))
         ELSE MaxPopLastWins(pops, targets, i + 1, best)

RECURSIVE MaxPop(_, _, _, _)
\* the loop `for pop in populations`, from element i on, with the best so far
MaxPop(pops, targets, i, best) ==
    IF i > Len(pops) THEN best
    ELSE IF /\ pops[i].population \in targets
            /\ pops[i].frequency # -1
            /\ (best.kind = "N/A" \/ pops[i].frequency > best.freq)
         THEN MaxPop(pops, targets, i + 1,
                     FrequencyOf(pops[i].frequency, pops[i].population))
         ELSE MaxPop(pops, targets, i + 1, best)

\* the value stored in frequencies[dbsnp_id] for a populations list
ResolveFrequency(pops, targets) == MaxPop(pops, targets, 1, NoFrequency)

\* what the service reports for one id: no entry, or a populations list
NoData == <<>>
VariantDataValues ==
    { NoData,
      <<Pop("gnomADe:NFE", "A", 10)>>,
      <<Pop("OTHER", "A", 50)>> }

\* `if not responses: ... continue`
SkipFreqBatch(k) ==
    /\ stage = "freq"
    /\ k \in Done
    /\ IsFalsy(futures[k].result)
    /\ Consume(k)
    /\ UNCHANGED <<all_dbsnp_ids, all_gene_annotations, frequencies>>

RECURSIVE StoreFrequencies(_, _, _, _)
\* `for dbsnp_id in batch_dbsnp_ids`, from position i to position n
StoreFrequencies(batch, datas, i, n) ==
    IF i > n THEN frequencies
    ELSE LET before == StoreFrequencies(batch, datas, i, n - 1)
         IN [id \in DOMAIN before \cup {batch[n]} |->
                IF id = batch[n]
                THEN ResolveFrequency(datas[n], TargetPopulations)
                ELSE before[id]]

\* every id of the batch is looked up in the response and resolved
ProcessFreqBatch(k) ==
    /\ stage = "freq"
    /\ k \in Done
    /\ futures[k].result = "{k}"
    /\ \E datas \in [1..Len(VariationBatches[k]) -> VariantDataValues] :
          frequencies' = StoreFrequencies(VariationBatches[k], datas, 1,
                                          Len(VariationBatches[k]))
    /\ Consume(k)
    /\ UNCHANGED <<all_dbsnp_ids, all_gene_annotations>>

\* a list payload has no .get, a variant_data that is no dict neither:
\* `except Exception` drops the batch from the id that raised on
FreqBatchRaises(k) ==
    /\ stage = "freq"
    /\ k \in Done
    /\ \/ /\ futures[k].result = "{k}"
          /\ \E n \in 0..(Len(VariationBatches[k]) - 1) :
             \E datas \in [1..n -> VariantDataValues] :
                frequencies' = StoreFrequencies(VariationBatches[k], datas, 1, n)
       \/ /\ futures[k].result = "[e]"
          /\ UNCHANGED frequencies
    /\ Consume(k)
    /\ UNCHANGED <<all_dbsnp_ids, all_gene_annotations>>

\* open(output_file, 'w') succeeds: the version line and the header are written
OpenOutput ==
    /\ stage = "freq"
    /\ AllConsumed
    /\ stage' = "emit"
    /\ UNCHANGED <<inputVars, all_dbsnp_ids, all_gene_annotations, futures,
                   frequencies, rows, emitted, requests>>

\* opening the file or writing to it raises: logger.critical and sys.exit(1)
OutputFails ==
    /\ \/ stage = "freq" /\ AllConsumed
       \/ stage = "emit"
    /\ stage' = "exit"
    /\ UNCHANGED <<inputVars, all_dbsnp_ids, all_gene_annotations, futures,
                   frequencies, rows, emitted, requests>>

\* frequencies.get(dbsnp_id, "N/A") if dbsnp_id != '.' else "N/A"
FrequencyFor(id) ==
    IF id # "." /\ id \in DOMAIN frequencies THEN frequencies[id] ELSE NoFrequency

\* the row writer.writerow is given for the record at index idx
RowOf(idx) ==
    [CHROM |-> records[idx].CHROM, POS |-> records[idx].POS,
     ID |-> all_dbsnp_ids[idx],
     REF |-> records[idx].REF, ALT |-> records[idx].ALT,
     Gene |-> all_gene_annotations[idx],
     Frequency |-> FrequencyFor(all_dbsnp_ids[idx])]

\* a mutant of RowsAfter: a variant without an id gets no row
RowsAfterSkippingIdless(written, idx) ==
    IF all_dbsnp_ids[idx] = "." THEN written ELSE Append(written, RowOf(idx))

\* the file after the loop body ran for index idx
RowsAfter(written, idx) == Append(written, RowOf(idx))

\* one turn of `for idx, record in enumerate(records)`
EmitRow ==
    /\ stage = "emit"
    /\ emitted < Len(records)
    /\ rows' = RowsAfter(rows, emitted + 1)
    /\ emitted' = emitted + 1
    /\ UNCHANGED <<stage, inputVars, all_dbsnp_ids, all_gene_annotations, futures,
                   frequencies, requests>>

\* the loop is over and the file closed
FinishRun ==
    /\ stage = "emit"
    /\ emitted = Len(records)
    /\ stage' = "done"
    /\ UNCHANGED <<inputVars, all_dbsnp_ids, all_gene_annotations, futures,
                   frequencies, rows, emitted, requests>>

\* no run of process_vcf is in progress
PipeIdle ==
    /\ stage = "off"
    /\ records = <<>>
    /\ record_map = <<>>
    /\ batch_size = 1
    /\ max_workers = 1
    /\ all_dbsnp_ids = <<>>
    /\ all_gene_annotations = <<>>
    /\ futures = <<>>
    /\ frequencies = <<>>
    /\ rows = <<>>
    /\ emitted = 0
    /\ requests = NoRequests
    /\ vep_responses = <<>>

\* process_vcf entered with its arguments
PipeInit ==
    /\ stage = "start"
    /\ records = <<>>
    /\ record_map = <<>>
    /\ batch_size \in 1..MaxBatchSize
    /\ max_workers \in 1..MaxWorkers
    /\ all_dbsnp_ids = <<>>
    /\ all_gene_annotations = <<>>
    /\ futures = <<>>
    /\ frequencies = <<>>
    /\ rows = <<>>
    /\ emitted = 0
    /\ requests = NoRequests
    /\ vep_responses = <<>>

\* ------------------------------------ the batching loops, on their own

MaxItems == 4
MaxChunk == 3

\* the values an element of all_dbsnp_ids takes
IdValues == {".", "rs1", "rs2"}

\* the lists of at most n elements of S
SeqsUpTo(S, n) == UNION { [1..m -> S] : m \in 0..n }

\* vep_batches = the slices of vep_variants
BuildVepBatches ==
    /\ pass = "vep"
    /\ batches' = MakeBatches(work_list, chunk)
    /\ pass' = "vep_done"
    /\ UNCHANGED <<work_list, chunk, resolverVars, alleleVars, appVars, orderVars>>

\* variation_batches = the slices of the ids that are not '.'
BuildVariationBatches ==
    /\ pass = "freq"
    /\ batches' = MakeBatches(RealIds(work_list, 1), chunk)
    /\ pass' = "freq_done"
    /\ UNCHANGED <<work_list, chunk, resolverVars, alleleVars, appVars, orderVars>>

\* no batching loop is under study
BatchIdle ==
    /\ work_list = <<>>
    /\ pass = "off"
    /\ chunk = 1
    /\ batches = <<>>

\* a work list and a batch size, before the loop
BatchInit ==
    /\ pass \in {"vep", "freq"}
    /\ work_list \in SeqsUpTo(IF pass = "vep" THEN { VepInput(v) : v \in Variants }
                                              ELSE IdValues, MaxItems)
    /\ chunk \in 1..MaxChunk
    /\ batches = <<>>

\* ------------------------------- the frequency selection, on its own

MaxPops == 2

\* frequencies[dbsnp_id] before the id is handled
Unset == [kind |-> "unset", freq |-> 0, population |-> ""]

\* the elements a populations list of the model is made of
Observations ==
    { Pop(name, allele, f) : name \in {"gnomADe:NFE", "gnomADg:NFE", "OTHER"},
                             allele \in {"G", "C", "T"},
                             f \in {-1, 0, 10, 50} }

\* the values --target_populations takes in the model
TargetChoices == { TargetPopulations, {"gnomADe:NFE"}, {"NFE"} }

\* the populations of one id are gone through and the result is stored
ResolveOne ==
    /\ resolved = Unset
    /\ resolved' = ResolveFrequency(populations, target_populations)
    /\ UNCHANGED <<variant, populations, target_populations, batchVars, alleleVars, appVars, orderVars>>

\* no frequency selection is under study
ResolverIdle ==
    /\ variant = [CHROM |-> "", POS |-> 0, REF |-> "", ALT |-> ""]
    /\ populations = <<>>
    /\ target_populations = {}
    /\ resolved = Unset

\* a record, the populations reported for its id, the target populations
ResolverInit ==
    /\ variant \in Variants
    /\ populations \in SeqsUpTo(Observations, MaxPops)
    /\ target_populations \in TargetChoices
    /\ resolved = Unset

\* ------------------- normalize_alleles and complement_allele, on their own

MaxAlleleLen == 3

\* the characters the alleles given to normalize_alleles are made of
AlleleChars == {"A", "C", "G", "T", "a"}

\* the characters the alleles given to complement_allele are made of
ComplementChars == {"A", "C", "G", "T", "-", "a"}

\* the strings of 1 to n characters of S
StringsUpTo(S, n) == UNION { [1..m -> S] : m \in 1..n }

\* the arguments test_normalize_alleles calls normalize_alleles with
TestedPairs ==
    { << <<"A", "C", "G", "T">>, <<"A", "C", "G", "A">> >>,
      << <<"G">>, <<"T">> >> }

\* the argument test_complement_allele calls complement_allele with
TestedAllele == <<"A", "C", "G", "T">>

\* str.upper(), one character
UpperChar(c) ==
    CASE c = "a" -> "A"
      [] c = "c" -> "C"
      [] c = "g" -> "G"
      [] c = "t" -> "T"
      [] OTHER -> c

\* str.upper()
Upper(str) == [i \in 1..Len(str) |-> UpperChar(str[i])]

RECURSIVE StripSuffixToEmpty(_, _)
\* a mutant of StripSuffix: `len(ref) > 0 and len(alt) > 0`
StripSuffixToEmpty(r, a) ==
    IF Len(r) > 0 /\ Len(a) > 0 /\ r[Len(r)] = a[Len(a)]
    THEN StripSuffixToEmpty(SubSeq(r, 1, Len(r) - 1), SubSeq(a, 1, Len(a) - 1))
    ELSE <<r, a>>

RECURSIVE StripSuffix(_, _)
\* while len(ref) > 1 and len(alt) > 1 and ref[-1] == alt[-1]: drop the last
StripSuffix(r, a) ==
    IF Len(r) > 1 /\ Len(a) > 1 /\ r[Len(r)] = a[Len(a)]
    THEN StripSuffix(SubSeq(r, 1, Len(r) - 1), SubSeq(a, 1, Len(a) - 1))
    ELSE <<r, a>>

RECURSIVE StripPrefix(_, _)
\* while len(ref) > 1 and len(alt) > 1 and ref[0] == alt[0]: drop the first
StripPrefix(r, a) ==
    IF Len(r) > 1 /\ Len(a) > 1 /\ r[1] = a[1]
    THEN StripPrefix(Tail(r), Tail(a))
    ELSE <<r, a>>

\* normalize_alleles(ref, alt)
NormalizeAlleles(r, a) ==
    LET stripped == StripSuffix(Upper(r), Upper(a))
    IN StripPrefix(stripped[1], stripped[2])

\* a mutant of ComplementString: the reverse complement
ReverseComplement(str) ==
    [i \in 1..Len(str) |-> ComplementAllele(str[Len(str) + 1 - i])]

\* allele.translate(str.maketrans('ACGT-', 'TGCA-'))
ComplementString(str) == [i \in 1..Len(str) |-> ComplementAllele(str[i])]

\* a call normalize_alleles(ref, alt) returns
Normalize ==
    /\ normalized = <<>>
    /\ ref # <<>>
    /\ normalized' = NormalizeAlleles(ref, alt)
    /\ UNCHANGED <<ref, alt, allele_in, complemented, batchVars, resolverVars, appVars, orderVars>>

\* a call complement_allele(allele) returns, and so does a call on its result
Complement ==
    /\ allele_in # <<>>
    /\ Len(complemented) < 2
    /\ complemented' =
          Append(complemented,
                 ComplementString(IF complemented = <<>> THEN allele_in
                                  ELSE complemented[Len(complemented)]))
    /\ UNCHANGED <<ref, alt, normalized, allele_in, batchVars, resolverVars, appVars, orderVars>>

\* no allele function is under study
AlleleIdle ==
    /\ ref = <<>>
    /\ alt = <<>>
    /\ normalized = <<>>
    /\ allele_in = <<>>
    /\ complemented = <<>>

\* the arguments of a call of normalize_alleles
NormalizeInit ==
    /\ \/ /\ ref \in StringsUpTo(AlleleChars, MaxAlleleLen)
          /\ alt \in StringsUpTo(AlleleChars, MaxAlleleLen)
       \/ \E pair \in TestedPairs : ref = pair[1] /\ alt = pair[2]
    /\ normalized = <<>>
    /\ allele_in = <<>>
    /\ complemented = <<>>

\* the argument of a call of complement_allele
ComplementInit ==
    /\ ref = <<>>
    /\ alt = <<>>
    /\ normalized = <<>>
    /\ allele_in \in StringsUpTo(ComplementChars, MaxAlleleLen) \cup {TestedAllele}
    /\ complemented = <<>>

\* --------------------------------------- GET /variants of the application

\* status_data['status'] as the pipeline's wrapper writes it, or no file
StatusValues == {"absent", "running", "failed", "completed"}

\* variants_df.empty: pd.DataFrame() of load_variants has no columns
FrameValues == {"empty", "rows"}

\* each parameter of a request: left out, acceptable, or not acceptable
QueryValues ==
    [frequency : {"absent", "valid", "invalid"},
     depth : {"absent", "valid"},
     sort_column : {"absent", "valid", "invalid"}]

\* a request without parameters
NoQuery == [frequency |-> "absent", depth |-> "absent", sort_column |-> "absent"]

NoResponse == [code |-> 0, message |-> "none"]

Answer(code, message) == [code |-> code, message |-> message]

\* the checks of the parameters, in the order they are made
Rejects(q) == q.sort_column = "invalid" \/ q.frequency = "invalid"

RejectMessage(q) ==
    IF q.sort_column = "invalid" THEN "Invalid sort_column."
    ELSE "Invalid query parameter."

\* a column of the frame is read: filtered_variants["Frequency"],
\* filtered_variants["DP"], sort_values(by=sort_column)
ReadsColumn(q) ==
    q.frequency = "valid" \/ q.depth = "valid" \/ q.sort_column = "valid"

\* filtering, sorting and paging: a frame without columns raises KeyError,
\* which `except Exception` answers
ServeFrame(q, df) ==
    IF df = "empty" /\ ReadsColumn(q)
    THEN Answer(500, "Internal server error.")
    ELSE Answer(200, IF df = "empty" THEN "total_variants: 0" ELSE "variants")

\* get_variants
GetVariantsResponse(q, sf, df) ==
    IF Rejects(q) THEN Answer(400, RejectMessage(q))
    ELSE IF sf = "running" THEN Answer(202, "status message")
    ELSE IF sf = "failed" THEN Answer(500, "status message")
    ELSE IF sf = "absent" /\ df = "empty"
         THEN Answer(503, "Pipeline has not been run yet.")
    ELSE ServeFrame(q, df)

\* one request is answered
GetVariants ==
    /\ response = NoResponse
    /\ response' = GetVariantsResponse(query, status_file, variants_df)
    /\ UNCHANGED <<status_file, variants_df, query, batchVars, resolverVars,
                   alleleVars, orderVars>>

\* no request is under study
AppIdle ==
    /\ status_file = "absent"
    /\ variants_df = "empty"
    /\ query = NoQuery
    /\ response = NoResponse

\* a request arrives
AppInit ==
    /\ status_file \in StatusValues
    /\ variants_df \in FrameValues
    /\ query \in QueryValues
    /\ response = NoResponse

\* ----------------- the as_completed loop of the consequence pass, on its own

\* the responses are in: every future is done with a list of entries
AnsweredFuture(batch) ==
    [NewFuture EXCEPT !.state = "done", !.result = "[e]", !.calls = 1,
                      !.batch = batch]

\* the response to batch k when the service answers query i of the run
\* as choice[i]
AnswerTo(k, choice) ==
    ResponseOf(VepBatches[k],
               [j \in 1..Len(VepBatches[k]) |-> choice[(k - 1) * batch_size + j]],
               Len(VepBatches[k]))

\* `for future in as_completed(future_to_batch)`: the main thread handles
\* the response of batch k, whichever future completed next
HandleAnswer(k) ==
    /\ stage = "vep"
    /\ answers # <<>>
    /\ k \in Done
    /\ WriteBack(answers[k])
    /\ vep_responses' = answers[k]
    /\ Consume(k)
    /\ UNCHANGED frequencies

\* no loop is under study
OrderIdle == answers = <<>>

\* a file has been read, its batches submitted, and every batch answered
OrderInit ==
    /\ stage = "vep"
    /\ \E n \in 1..(MaxRecords + 1) : records \in [1..n -> Variants]
    /\ record_map = RecordMapOf(records)
    /\ batch_size \in 1..MaxBatchSize
    /\ max_workers = MaxWorkers
    /\ all_dbsnp_ids = [i \in 1..Len(records) |-> "."]
    /\ all_gene_annotations = [i \in 1..Len(records) |-> "Intergenic"]
    /\ futures = [k \in 1..Len(VepBatches) |-> AnsweredFuture(VepBatches[k])]
    /\ frequencies = <<>>
    /\ rows = <<>>
    /\ emitted = 0
    /\ requests = [NoRequests EXCEPT !["dbsnp"] = 1, !["vep"] = Len(VepBatches)]
    /\ vep_responses = <<>>
    /\ \E choice \in [1..Len(records) -> AnswerChoices] :
          answers = [k \in 1..Len(VepBatches) |-> AnswerTo(k, choice)]

\* ---------------------------------------------------------- specifications

InitLimiter ==
    /\ RLInit
    /\ RestIdle
    /\ PipeIdle
    /\ BatchIdle
    /\ ResolverIdle
    /\ AlleleIdle
    /\ AppIdle
    /\ OrderIdle
    /\ pc = [t \in Threads |-> "idle"]

NextLimiter ==
    \/ Tick /\ UNCHANGED <<restVars, pipeVars, fnVars>>
    \/ \E t \in Threads : Call(t) /\ UNCHANGED <<restVars, pipeVars, fnVars>>
    \/ \E t \in Threads : RLAcquire(t) /\ UNCHANGED <<restVars, pipeVars, fnVars>>
    \/ \E t \in Threads : RLAdmit(t) /\ UNCHANGED <<restVars, pipeVars, fnVars>>
    \/ \E t \in Threads : RLSleep(t) /\ UNCHANGED <<restVars, pipeVars, fnVars>>
    \/ \E t \in Threads : RLWake(t) /\ UNCHANGED <<restVars, pipeVars, fnVars>>
    \/ \E t \in Threads : Return(t) /\ UNCHANGED <<restVars, pipeVars, fnVars>>

SpecLimiter == InitLimiter /\ [][NextLimiter]_vars

\* the limiter under callers that keep arriving
NextArrivals ==
    \/ Pass /\ UNCHANGED <<restVars, pipeVars, fnVars>>
    \/ \E t \in Threads : Arrive(t) /\ UNCHANGED <<restVars, pipeVars, fnVars>>
    \/ \E t \in Threads : RLAcquire(t) /\ UNCHANGED <<restVars, pipeVars, fnVars>>
    \/ \E t \in Threads : RLAdmit(t) /\ UNCHANGED <<restVars, pipeVars, fnVars>>
    \/ \E t \in Threads : RLSleep(t) /\ UNCHANGED <<restVars, pipeVars, fnVars>>
    \/ \E t \in Threads : RLWake(t) /\ UNCHANGED <<restVars, pipeVars, fnVars>>
    \/ \E t \in Threads : Leave(t) /\ UNCHANGED <<restVars, pipeVars, fnVars>>

\* a step of thread t inside _check_rate_limit, or its return from it
Runs(t) ==
    (RLAcquire(t) \/ RLAdmit(t) \/ RLSleep(t) \/ RLWake(t) \/ Leave(t))
        /\ UNCHANGED <<restVars, pipeVars, fnVars>>

\* time goes on, and the scheduler runs every thread that stays runnable.
\* threading.Lock leaves open which of the threads blocked in acquire()
\* proceeds at a release, so a thread that waits for the lock is runnable
\* only as long as the lock stays free
FairArrivals ==
    /\ WF_vars(Pass /\ UNCHANGED <<restVars, pipeVars, fnVars>>)
    /\ \A t \in Threads : WF_vars(Runs(t))

SpecArrivals == InitLimiter /\ [][NextArrivals]_vars /\ FairArrivals

InitRest ==
    /\ RLInit
    /\ RestInit
    /\ PipeIdle
    /\ BatchIdle
    /\ ResolverIdle
    /\ AlleleIdle
    /\ AppIdle
    /\ OrderIdle
    /\ pc = [t \in Threads |-> IF t = RestCaller THEN "loop" ELSE "idle"]

NextRest ==
    \/ Tick /\ UNCHANGED <<restVars, pipeVars, fnVars>>
    \/ RLAcquire(RestCaller) /\ UNCHANGED <<restVars, pipeVars, fnVars>>
    \/ RLAdmit(RestCaller) /\ UNCHANGED <<restVars, pipeVars, fnVars>>
    \/ RLSleep(RestCaller) /\ UNCHANGED <<restVars, pipeVars, fnVars>>
    \/ RLWake(RestCaller) /\ UNCHANGED <<restVars, pipeVars, fnVars>>
    \/ NextAttempt
    \/ LoopExhausted
    \/ Admitted
    \/ HttpOk
    \/ Http429
    \/ Http5xx
    \/ Http413
    \/ HttpOther
    \/ UrlError
    \/ OtherException

SpecRest == InitRest /\ [][NextRest]_vars

\* a call through a client of one request per second, the budget under
\* which the limiter makes its caller wait most
InitRestFair == InitRest /\ reqs_per_sec = 1

\* the calling thread keeps running and time goes on
SpecRestFair == InitRestFair /\ [][NextRest]_vars /\ WF_vars(NextRest)

InitOrder ==
    /\ RLInit
    /\ reqs_per_sec = MaxCap
    /\ RestIdle
    /\ OrderInit
    /\ BatchIdle
    /\ ResolverIdle
    /\ AlleleIdle
    /\ AppIdle
    /\ pc = [t \in Threads |-> "idle"]

NextOrder ==
    \/ \E k \in 1..Len(futures) : HandleAnswer(k) /\ UNCHANGED <<rlVars, restVars, fnVars>>

SpecOrder == InitOrder /\ [][NextOrder]_vars

InitPipeline ==
    /\ RLInit
    /\ reqs_per_sec = MaxCap
    /\ RestIdle
    /\ PipeInit
    /\ BatchIdle
    /\ ResolverIdle
    /\ AlleleIdle
    /\ AppIdle
    /\ OrderIdle
    /\ pc = [t \in Threads |-> "idle"]

NextPipeline ==
    \/ FetchDbsnpVersion /\ UNCHANGED <<rlVars, restVars, fnVars, vep_responses>>
    \/ ReadVcfFails /\ UNCHANGED <<rlVars, restVars, fnVars, vep_responses>>
    \/ ReadVcf /\ UNCHANGED <<rlVars, restVars, fnVars, vep_responses>>
    \/ \E k \in 1..Len(futures) : StartFuture(k) /\ UNCHANGED <<rlVars, restVars, fnVars, vep_responses>>
    \/ \E k \in 1..Len(futures) : FetchVepBatch(k) /\ UNCHANGED <<rlVars, restVars, fnVars, vep_responses>>
    \/ \E k \in 1..Len(futures) : SkipVepBatch(k) /\ UNCHANGED <<rlVars, restVars, fnVars>>
    \/ \E k \in 1..Len(futures) : ProcessVepBatch(k) /\ UNCHANGED <<rlVars, restVars, fnVars>>
    \/ \E k \in 1..Len(futures) : VepBatchRaises(k) /\ UNCHANGED <<rlVars, restVars, fnVars>>
    \/ StartFreqPass /\ UNCHANGED <<rlVars, restVars, fnVars, vep_responses>>
    \/ \E k \in 1..Len(futures) : FetchFreqRetry(k) /\ UNCHANGED <<rlVars, restVars, fnVars, vep_responses>>
    \/ \E k \in 1..Len(futures) : FetchFreqBatch(k) /\ UNCHANGED <<rlVars, restVars, fnVars, vep_responses>>
    \/ \E k \in 1..Len(futures) : SkipFreqBatch(k) /\ UNCHANGED <<rlVars, restVars, fnVars, vep_responses>>
    \/ \E k \in 1..Len(futures) : ProcessFreqBatch(k) /\ UNCHANGED <<rlVars, restVars, fnVars, vep_responses>>
    \/ \E k \in 1..Len(futures) : FreqBatchRaises(k) /\ UNCHANGED <<rlVars, restVars, fnVars, vep_responses>>
    \/ OpenOutput /\ UNCHANGED <<rlVars, restVars, fnVars, vep_responses>>
    \/ OutputFails /\ UNCHANGED <<rlVars, restVars, fnVars, vep_responses>>
    \/ EmitRow /\ UNCHANGED <<rlVars, restVars, fnVars, vep_responses>>
    \/ FinishRun /\ UNCHANGED <<rlVars, restVars, fnVars, vep_responses>>

SpecPipeline == InitPipeline /\ [][NextPipeline]_vars

InitBatching ==
    /\ RLInit
    /\ reqs_per_sec = MaxCap
    /\ RestIdle
    /\ PipeIdle
    /\ BatchInit
    /\ ResolverIdle
    /\ AlleleIdle
    /\ AppIdle
    /\ OrderIdle
    /\ pc = [t \in Threads |-> "idle"]

NextBatching ==
    \/ BuildVepBatches /\ UNCHANGED <<rlVars, restVars, pipeVars>>
    \/ BuildVariationBatches /\ UNCHANGED <<rlVars, restVars, pipeVars>>

SpecBatching == InitBatching /\ [][NextBatching]_vars

InitResolver ==
    /\ RLInit
    /\ reqs_per_sec = MaxCap
    /\ RestIdle
    /\ PipeIdle
    /\ BatchIdle
    /\ ResolverInit
    /\ AlleleIdle
    /\ AppIdle
    /\ OrderIdle
    /\ pc = [t \in Threads |-> "idle"]

NextResolver ==
    \/ ResolveOne /\ UNCHANGED <<rlVars, restVars, pipeVars>>

SpecResolver == InitResolver /\ [][NextResolver]_vars

InitNormalize ==
    /\ RLInit
    /\ reqs_per_sec = MaxCap
    /\ RestIdle
    /\ PipeIdle
    /\ BatchIdle
    /\ ResolverIdle
    /\ NormalizeInit
    /\ AppIdle
    /\ OrderIdle
    /\ pc = [t \in Threads |-> "idle"]

NextNormalize ==
    \/ Normalize /\ UNCHANGED <<rlVars, restVars, pipeVars>>

SpecNormalize == InitNormalize /\ [][NextNormalize]_vars

InitComplement ==
    /\ RLInit
    /\ reqs_per_sec = MaxCap
    /\ RestIdle
    /\ PipeIdle
    /\ BatchIdle
    /\ ResolverIdle
    /\ ComplementInit
    /\ AppIdle
    /\ OrderIdle
    /\ pc = [t \in Threads |-> "idle"]

NextComplement ==
    \/ Complement /\ UNCHANGED <<rlVars, restVars, pipeVars>>

SpecComplement == InitComplement /\ [][NextComplement]_vars

InitApp ==
    /\ RLInit
    /\ reqs_per_sec = MaxCap
    /\ RestIdle
    /\ PipeIdle
    /\ BatchIdle
    /\ ResolverIdle
    /\ AlleleIdle
    /\ AppInit
    /\ OrderIdle
    /\ pc = [t \in Threads |-> "idle"]

NextApp ==
    \/ GetVariants /\ UNCHANGED <<rlVars, restVars, pipeVars>>

SpecApp == InitApp /\ [][NextApp]_vars

\* ------------------------------------------------------------------ claims

\* row i of the output carries CHROM/POS/REF/ALT of input variant i
RowMatches(i) ==
    /\ rows[i].CHROM = records[i].CHROM
    /\ rows[i].POS = records[i].POS
    /\ rows[i].REF = records[i].REF
    /\ rows[i].ALT = records[i].ALT

\* C1: the rows written so far are one row per input variant, in input
\* order, for a prefix of the input; a run that completes has written exactly
\* one row for each of the N variants, whatever the service answered.
C1_OneRowPerVariant ==
    /\ Len(rows) <= Len(records)
    /\ \A i \in 1..Len(rows) : RowMatches(i)
    /\ stage = "done" => Len(rows) = Len(records)

\* C1 witness: a completed run over two different variants, the first left
\* without an id by the service, the second annotated with one.
C1_Witness ==
    /\ stage = "done"
    /\ Len(records) = 2
    /\ records[1] # records[2]
    /\ Len(rows) = 2
    /\ rows[1].ID = "."
    /\ rows[2].ID # "."

\* C2: across all threads, the calls admitted between two consecutive
\* assignments of the window start never exceed the cap, and the shared
\* counter never exceeds the cap.
C2_CapNeverExceeded ==
    /\ req_count <= reqs_per_sec
    /\ window_admits <= reqs_per_sec

\* C2 witness: the cap is at least 2 and the whole budget of a window has been
\* handed out, to more than one thread.
C2_Witness ==
    /\ reqs_per_sec >= 2
    /\ window_admits = reqs_per_sec
    /\ req_count = reqs_per_sec
    /\ \A t \in Threads : calls[t] >= 1

\* C3: a call that finds the budget of the window used up (counter = cap)
\* returns only once a second has passed since the window start; when it
\* returns the counter is 1 and the window start is the time of the return.
C3_BlocksUntilRollover ==
    [][\A t \in Threads :
          (pc[t] \in {"rl_locked", "rl_sleep"} /\ pc'[t] = "rl_done"
              /\ req_count = reqs_per_sec)
          => (/\ now' >= last_reset + TicksPerSec
              /\ req_count' = 1
              /\ last_reset' = now'
              /\ window_admits' = 1)]_vars

\* C3 witness: a call that slept inside the limiter has returned.
C3_Witness ==
    \E t \in Threads :
        /\ pc[t] = "rl_done"
        /\ slept[t]
        /\ req_count = 1
        /\ last_reset = now

\* ------------------------------------------- claims on perform_rest_action

Last(s) == s[Len(s)]
Is5xx(r) == r.kind = "http" /\ r.code \in RetryableStatuses
Is429(r) == r.kind = "http" /\ r.code = 429
Is413(r) == r.kind = "http" /\ r.code = 413
IsOtherStatus(r) == r.kind = "http" /\ r.code \notin (RetryableStatuses \cup {429})
IsNetFail(r) == r.kind \in {"urlerror", "exception"}
IsOk(r) == r.kind = "ok"
AllOf(s, P(_)) == \A i \in 1..Len(s) : P(s[i])
ButLast(s) == SubSeq(s, 1, Len(s) - 1)
HasReturned == pc[RestCaller] = "returned"

\* C4: while every answer so far is a 500/502/503/504 and fewer than `retries`
\* attempts were made, the call goes on to a further attempt; and when k such
\* answers are followed by a 200, the call returns the parsed body of the 200.
C4_RetriesThenSuccess ==
    /\ (responses # <<>> /\ AllOf(responses, Is5xx) /\ Len(responses) < retries)
          => ~HasReturned
    /\ (responses # <<>> /\ IsOk(Last(responses)) /\ AllOf(ButLast(responses), Is5xx))
          => (HasReturned /\ result = Returned(JsonLoads(Last(responses).body)))

\* C4 witness: [500, 500, 200] with ceiling >= 3 gave the body of the 200.
C4_Witness ==
    /\ HasReturned
    /\ Len(responses) = 3
    /\ Is5xx(responses[1]) /\ Is5xx(responses[2])
    /\ IsOk(responses[3]) /\ responses[3].body = "[e]"
    /\ result = Returned("[e]")

C6_NetworkFailureBackoff ==
    /\ Len(responses) <= retries
    /\ (responses # <<>> /\ IsNetFail(Last(responses)) /\ Len(responses) < retries)
          => /\ ~HasReturned
             /\ sleeps >= 1
             /\ (sleep_duration - Pow2(Len(responses)) * TicksPerSec) \in Jitter
    /\ (responses # <<>> /\ IsNetFail(Last(responses)) /\ Len(responses) = retries)
          => (HasReturned /\ result = Returned(EmptyDict))
    /\ (responses # <<>> /\ IsOk(Last(responses)))
          => (HasReturned /\ result = Returned(JsonLoads(Last(responses).body)))

\* C6 witness: every attempt of a call with ceiling >= 3 failed at network
\* level, with a URLError and with another exception, and the call gave up.
C6_Witness ==
    /\ HasReturned
    /\ retries >= 3
    /\ Len(responses) = retries
    /\ AllOf(responses, IsNetFail)
    /\ \E i, j \in 1..Len(responses) :
          responses[i].kind = "urlerror" /\ responses[j].kind = "exception"
    /\ sleeps = retries - 1

\* C7 (as claimed): a 429 never ends the call, so that after any number of
\* 429 answers the call is still there to receive the 200.
C7_Always429Retried ==
    (responses # <<>> /\ AllOf(responses, Is429)) => ~HasReturned

C9_SignalInOutcome ==
    (responses # <<>> /\ Is413(responses[1]))
        => /\ Len(responses) = 1
           /\ HasReturned
           /\ result # Returned(EmptyDict)

\* C10 (as claimed): a call whose last answer is an HTTP error status ends by
\* raising the HTTPError, which carries the status code.
C10_RaisesHTTPError ==
    (HasReturned /\ responses # <<>> /\ Last(responses).kind = "http")
        => result = Raised(Last(responses).code)

\* C11 (as claimed): a 200 with an empty body ends the call on that attempt
\* with a success outcome, one that is not the failure outcome the callers
\* test for (None or {}).
C11_EmptyBodyIsSuccess ==
    (responses # <<>> /\ IsOk(Last(responses)) /\ Last(responses).body = "")
        => /\ HasReturned
           /\ result.kind = "return"
           /\ ~IsFailure(result.value)

\* ------------------------------------------------- claims on the batching

\* ceil(n / b)
CeilDiv(n, b) == (n + b - 1) \div b

RECURSIVE Concat(_, _)
\* the first k lists of a list of lists, joined
Concat(lists, k) == IF k = 0 THEN <<>> ELSE Concat(lists, k - 1) \o lists[k]

\* the ordered work list the loop of the pass under study slices
WorkOrdered ==
    IF pass \in {"vep", "vep_done"} THEN work_list
    ELSE SelectSeq(work_list, LAMBDA id : id # ".")

\* C12: for N items and batch size B, either pass builds ceil(N/B) batches,
\* every batch but the last holds B items, the last between 1 and B, and the
\* batches joined in batch-number order are the work list (so each item is in
\* exactly one batch, in order).
C12_BatchesPartition ==
    pass \in {"vep_done", "freq_done"}
        => /\ Len(batches) = CeilDiv(Len(WorkOrdered), chunk)
           /\ \A k \in 1..Len(batches) :
                 /\ k < Len(batches) => Len(batches[k]) = chunk
                 /\ Len(batches[k]) >= 1
                 /\ Len(batches[k]) <= chunk
           /\ Concat(batches, Len(batches)) = WorkOrdered

\* C12 witness: the frequency pass has cut a list with a '.' left out into
\* full batches followed by a shorter one.
C12_Witness ==
    /\ pass = "freq_done"
    /\ Len(WorkOrdered) < Len(work_list)
    /\ Len(batches) >= 2
    /\ chunk >= 2
    /\ Len(batches[Len(batches)]) < chunk

\* ------------------------------------------------- claims on process_vcf

\* no two variants of the file give the same query string
DistinctQueries ==
    \A i, j \in 1..Len(records) :
        i # j => VepInput(records[i]) # VepInput(records[j])

\* the entries of a response whose `input` is the query string of variant i
Hits(resp, i) == { e \in 1..Len(resp) : resp[e].input = VepInput(records[i]) }

\* the last of them
LastHit(resp, i) == CHOOSE e \in Hits(resp, i) : \A f \in Hits(resp, i) : f <= e

\* the main thread handles a completed future of the consequence pass
VepTurn ==
    /\ stage = "vep"
    /\ \E k \in 1..Len(futures) :
          futures[k].state = "done" /\ futures'[k].state = "consumed"

\* C13: whichever batch completes first, and the query strings being
\* pairwise distinct, a turn of the consequence loop writes the id and the
\* gene of each entry at the index of the variant whose query string is the
\* entry's `input`, and leaves every other index as it was.
C13_WrittenAtOwnIndex ==
    [][(VepTurn /\ DistinctQueries)
          => \A i \in 1..Len(records) :
                IF Hits(vep_responses', i) = {}
                THEN /\ all_dbsnp_ids'[i] = all_dbsnp_ids[i]
                     /\ all_gene_annotations'[i] = all_gene_annotations[i]
                ELSE /\ all_dbsnp_ids'[i] =
                          DbsnpIdOf(vep_responses'[LastHit(vep_responses', i)].colocated)
                     /\ all_gene_annotations'[i] =
                          GeneOf(vep_responses'[LastHit(vep_responses', i)].transcripts)]_vars

\* C13 witness: batch 2 was handled while batch 1 is still out, and its entry
\* gave variant 2 an id and a gene while variant 1 keeps its placeholders.
C13_Witness ==
    /\ stage = "vep"
    /\ DistinctQueries
    /\ Len(futures) = 2
    /\ futures[1].state \in {"queued", "running"}
    /\ futures[2].state = "consumed"
    /\ Hits(vep_responses, 2) # {}
    /\ all_dbsnp_ids[2] # "."
    /\ all_gene_annotations[2] # "Intergenic"
    /\ all_dbsnp_ids[1] = "."
    /\ all_gene_annotations[1] = "Intergenic"

\* the indices of the variants whose queries make up consequence batch k
IndicesOfBatch(k) ==
    { i \in 1..Len(records) : (k - 1) * batch_size < i /\ i <= k * batch_size }

\* a transport call made for the batch of future k came back with a failure
\* or an empty result
TransportFailed(k) ==
    \/ futures[k].state = "running" /\ futures[k].calls >= 1
    \/ futures[k].state \in {"done", "consumed"}
          /\ (futures[k].calls >= 2 \/ IsFalsy(futures[k].result))

\* the ids of frequency batch k that no other batch asks for
OwnIds(k) ==
    { VariationBatches[k][n] : n \in 1..Len(VariationBatches[k]) }
        \ UNION { { VariationBatches[j][n] : n \in 1..Len(VariationBatches[j]) } :
                    j \in (1..Len(VariationBatches)) \ {k} }

\* C14 (as claimed): once the main thread is done with a batch whose
\* transport call failed or came back empty, the items of that batch have
\* their sentinel values: '.' and 'Intergenic' in the consequence pass, 'N/A'
\* in the frequency pass (the query strings being pairwise distinct).
C14_FailedBatchKeepsSentinels ==
    DistinctQueries =>
        \A k \in 1..Len(futures) :
            (futures[k].state = "consumed" /\ TransportFailed(k))
                => /\ stage = "vep" =>
                        \A i \in IndicesOfBatch(k) :
                            /\ all_dbsnp_ids[i] = "."
                            /\ all_gene_annotations[i] = "Intergenic"
                   /\ stage \in {"freq", "emit", "done"} =>
                        \A id \in OwnIds(k) : FrequencyFor(id) = NoFrequency

\* C15 (as claimed): a transport call of the frequency pass that came back
\* with a failure or an empty result degrades its batch to "no data": the
\* worker does not go on asking for the same batch, so that a service that
\* keeps failing cannot keep the run from its emission stage.
C15_ExhaustedRetriesDegrade ==
    \A k \in 1..Len(futures) :
        (stage = "freq" /\ futures[k].state = "running") => futures[k].calls = 0

\* C16 (as claimed): two variants with the same query string are never
\* merged into one index, one of them annotated from the shared key while the
\* other silently keeps its placeholders.
C16_NoSilentMerge ==
    \A i, j \in 1..Len(all_dbsnp_ids) :
        (i # j /\ VepInput(records[i]) = VepInput(records[j]))
            => ~(/\ all_dbsnp_ids[i] = "."
                 /\ all_gene_annotations[i] = "Intergenic"
                 /\ (all_dbsnp_ids[j] # "." \/ all_gene_annotations[j] # "Intergenic"))

\* ------------------------------------- claims on the frequency selection

\* a population name, cut at its colons
NameParts(name) ==
    CASE name = "gnomADe:NFE" -> <<"gnomADe", "NFE">>
      [] name = "gnomADg:NFE" -> <<"gnomADg", "NFE">>
      [] name = "1000GENOMES:phase_3:CEU" -> <<"1000GENOMES", "phase_3", "CEU">>
      [] OTHER -> <<name>>

\* `sub in name` on strings: the parts of sub are consecutive parts of name
IsSubstring(sub, name) ==
    \E i \in 1..Len(NameParts(name)) : \E j \in i..Len(NameParts(name)) :
        SubSeq(NameParts(name), i, j) = NameParts(sub)

\* the population name contains one of the preferred strings
Preferred(name) == \E t \in target_populations : IsSubstring(t, name)

\* the acceptance set of the variant: its alternate allele (one upper-case
\* base in the model, which normalisation leaves as it is) and the complement
AcceptanceSet == {variant.ALT, ComplementAllele(variant.ALT)}

\* observation i reports a frequency
HasFrequency(i) == populations[i].frequency # -1

\* observation i reports a frequency for an allele of the acceptance set
Matches(i) == HasFrequency(i) /\ populations[i].allele \in AcceptanceSet

\* the observations whose population is one of the preferred names
FromListed == { i \in 1..Len(populations) :
                   HasFrequency(i) /\ populations[i].population \in target_populations }

\* the largest frequency among the observations in I
MaxFrequency(I) == CHOOSE f \in { populations[i].frequency : i \in I } :
                       \A i \in I : populations[i].frequency <= f

\* the selection has run
IsResolved == resolved # Unset

\* C17: the resolved frequency is never taken from a population that is not
\* preferred, however high its frequency; whenever some observation of a
\* preferred population reports a frequency, the result is the largest
\* frequency of the preferred populations (gnomADe:NFE 0.10 and OTHER 0.50
\* with preferred [gnomADe:NFE] give 0.10 from gnomADe:NFE).
C17_PreferredBeatsHigher ==
    IsResolved =>
        /\ resolved.kind = "freq" => Preferred(resolved.population)
        /\ FromListed # {} =>
              /\ resolved.kind = "freq"
              /\ resolved.population \in target_populations
              /\ resolved.freq = MaxFrequency(FromListed)
        /\ (/\ target_populations = {"gnomADe:NFE"}
            /\ \E a, b \in {"G", "C", "T"} :
                  populations = <<Pop("gnomADe:NFE", a, 10), Pop("OTHER", b, 50)>>)
              => resolved = FrequencyOf(10, "gnomADe:NFE")

\* C17 witness: gnomADe:NFE 0.10 and OTHER 0.50 with preferred [gnomADe:NFE].
C17_Witness ==
    /\ IsResolved
    /\ target_populations = {"gnomADe:NFE"}
    /\ variant.ALT = "G"
    /\ populations = <<Pop("gnomADe:NFE", "G", 10), Pop("OTHER", "G", 50)>>
    /\ resolved = FrequencyOf(10, "gnomADe:NFE")

\* C18 (as claimed): a resolved frequency comes from an observation whose
\* allele is the variant's alternate allele or its complement.
C18_AlleleInAcceptanceSet ==
    (IsResolved /\ resolved.kind = "freq")
        => \E i \in 1..Len(populations) :
              /\ Matches(i)
              /\ populations[i].frequency = resolved.freq
              /\ populations[i].population = resolved.population

\* C19 (as claimed): an observation whose population name contains a
\* preferred string qualifies, so that when one matches the acceptance set
\* the result is a frequency of a preferred population, not "N/A".
C19_SubstringQualifies ==
    (IsResolved /\ \E i \in 1..Len(populations) :
                      Matches(i) /\ Preferred(populations[i].population))
        => (resolved.kind = "freq" /\ Preferred(resolved.population))

\* C20 (as claimed): when no observation belongs to a preferred population
\* and some observation matches the acceptance set, the result is the largest
\* frequency of the matching observations, not "N/A".
C20_SecondPass ==
    (/\ IsResolved
     /\ \A i \in 1..Len(populations) : ~Preferred(populations[i].population)
     /\ \E i \in 1..Len(populations) : Matches(i))
        => /\ resolved.kind = "freq"
           /\ resolved.freq =
                 MaxFrequency({ i \in 1..Len(populations) : Matches(i) })

\* the first observation in I, in response order, that reports frequency f
FirstWith(I, f) ==
    CHOOSE i \in I : /\ populations[i].frequency = f
                     /\ \A j \in I : populations[j].frequency = f => i <= j

\* C21: the result is the largest frequency of the qualifying observations
\* (population among the targets, a frequency reported) with the population of
\* the first observation that reports it; a frequency of 0 is a result like
\* any other; "N/A" is the result exactly when no observation qualifies.
C21_MaxFirstSeen ==
    IsResolved =>
        IF FromListed = {} THEN resolved = NoFrequency
        ELSE resolved =
               FrequencyOf(MaxFrequency(FromListed),
                   populations[FirstWith(FromListed, MaxFrequency(FromListed))].population)

\* C21 witness: two target populations report the same frequency, 0, and the
\* first of them gives the result.
C21_Witness ==
    /\ IsResolved
    /\ target_populations = TargetPopulations
    /\ populations = <<Pop("gnomADg:NFE", "G", 0), Pop("gnomADe:NFE", "G", 0)>>
    /\ resolved = FrequencyOf(0, "gnomADg:NFE")

\* the ids the futures of the frequency pass were submitted with, in batch order
QueriedIds == Concat([k \in 1..Len(futures) |-> futures[k].batch], Len(futures))

\* C22: once the frequency pass is submitted, the ids it asks for are the ids
\* of the variants that got a real id in the consequence pass, one per such
\* variant, in index order, and never '.'; and every row written for a
\* variant whose id is '.' has the frequency "N/A".
C22_QueriesOnlyRealIds ==
    /\ stage \in {"freq", "emit", "done"} =>
          /\ QueriedIds = SelectSeq(all_dbsnp_ids, LAMBDA id : id # ".")
          /\ Len(QueriedIds) =
                Cardinality({ i \in 1..Len(all_dbsnp_ids) : all_dbsnp_ids[i] # "." })
    /\ \A i \in 1..Len(rows) : rows[i].ID = "." => rows[i].Frequency = NoFrequency

\* C22 witness: of two variants one got an id; one id was asked for, and the
\* run wrote "N/A" for the variant without id and a frequency for the other.
C22_Witness ==
    /\ stage = "done"
    /\ Len(rows) = 2
    /\ rows[1].ID = "."
    /\ rows[2].ID # "."
    /\ Len(QueriedIds) = 1
    /\ rows[1].Frequency = NoFrequency
    /\ rows[2].Frequency.kind = "freq"

\* C23: the stages follow one another: the consequence pass is left only
\* for the frequency pass and only when every consequence batch has been
\* handled by the main thread; no call to the variation endpoint is made
\* before that; the frequency pass is left only when every frequency batch has
\* been handled; rows are written only afterwards, and no call to a service is
\* made once the writing has begun.
C23_StagesInSequence ==
    [][/\ stage = "vep" =>
             /\ requests'["variation"] = 0
             /\ rows' = <<>>
             /\ stage' # "vep" => (stage' = "freq" /\ AllConsumed)
       /\ stage = "freq" =>
             /\ rows' = <<>>
             /\ requests'["vep"] = requests["vep"]
             /\ stage' # "freq" => (stage' \in {"emit", "exit"} /\ AllConsumed)
       /\ requests'["variation"] # requests["variation"] => stage = "freq"
       /\ rows' # rows => (stage = "emit" /\ requests' = requests)
       /\ stage \in {"emit", "done", "exit"} => requests' = requests]_vars

\* C23 witness: a run of two consequence batches and a frequency batch has
\* written its two rows.
C23_Witness ==
    /\ stage = "done"
    /\ requests["vep"] = 2
    /\ requests["variation"] >= 1
    /\ Len(rows) = 2

\* C24 (as claimed): a run that was aborted by a fatal setup error (input
\* not readable, output not writable) has made no call to any service.
C24_AbortBeforeNetwork ==
    stage = "exit" => requests = NoRequests

\* the handled entries whose `input` is a key of record_map leading to index i
KnownHits(resp, i) ==
    { e \in 1..Len(resp) :
         resp[e].input \in DOMAIN record_map /\ record_map[resp[e].input] = i }

\* the last of them
LastKnownHit(resp, i) ==
    CHOOSE e \in KnownHits(resp, i) : \A f \in KnownHits(resp, i) : f <= e

\* the response handled in this turn has an entry whose key is nobody's
HasUnknownEntry(resp) ==
    \E e \in 1..Len(resp) : resp[e].input \notin DOMAIN record_map

\* C25: in a turn whose response holds an entry with a key that matches no
\* variant, that entry changes no slot, and every other entry of the response
\* is written at the index its key leads to: each index holds what the last
\* entry leading to it gives, and an index no entry leads to is as before.
C25_UnknownKeyDiscardedAlone ==
    [][(VepTurn /\ HasUnknownEntry(vep_responses'))
          => \A i \in 1..Len(records) :
                IF KnownHits(vep_responses', i) = {}
                THEN /\ all_dbsnp_ids'[i] = all_dbsnp_ids[i]
                     /\ all_gene_annotations'[i] = all_gene_annotations[i]
                ELSE /\ all_dbsnp_ids'[i] =
                          DbsnpIdOf(vep_responses'[LastKnownHit(vep_responses', i)].colocated)
                     /\ all_gene_annotations'[i] =
                          GeneOf(vep_responses'[LastKnownHit(vep_responses', i)].transcripts)]_vars

\* C25 witness: a response of two entries, the first under an unknown key,
\* the second for a variant that now has its id.
C25_Witness ==
    /\ stage = "vep"
    /\ Len(vep_responses) = 2
    /\ vep_responses[1].input \notin DOMAIN record_map
    /\ vep_responses[2].input \in DOMAIN record_map
    /\ all_dbsnp_ids[record_map[vep_responses[2].input]] = "rs1"

\* ------------------------------------------- claims on the allele functions

\* the number of characters two strings share at their end
SharedAtEnd(r, a, n) ==
    \A i \in 0..(n - 1) : r[Len(r) - i] = a[Len(a) - i]

\* the number of characters two strings share at their start
SharedAtStart(r, a, n) == \A i \in 1..n : r[i] = a[i]

\* the shorter of two lengths
MinLen(r, a) == IF Len(r) <= Len(a) THEN Len(r) ELSE Len(a)

\* the largest n, at most MinLen - 1, for which P(n) holds of every m <= n
Longest(r, a, P(_, _, _)) ==
    CHOOSE n \in 0..(MinLen(r, a) - 1) :
        /\ P(r, a, n)
        /\ \A m \in (n + 1)..(MinLen(r, a) - 1) : ~P(r, a, m)

\* a string without its last n characters
DropLast(str, n) == SubSeq(str, 1, Len(str) - n)

\* a string without its first n characters
DropFirst(str, n) == SubSeq(str, n + 1, Len(str))

\* C26: normalize_alleles returns the upper-cased pair without the longest
\* shared ending that leaves both strings a character, and then without the
\* longest shared beginning that leaves both a character; both results have at
\* least one character; ('ACGT', 'ACGA') gives ('T', 'A') and ('G', 'T') is
\* returned as it is.
C26_NormalizeAlleles ==
    normalized # <<>> =>
        LET r == Upper(ref)
            a == Upper(alt)
            s == Longest(r, a, SharedAtEnd)
            r1 == DropLast(r, s)
            a1 == DropLast(a, s)
            p == Longest(r1, a1, SharedAtStart)
        IN /\ normalized = <<DropFirst(r1, p), DropFirst(a1, p)>>
           /\ Len(normalized[1]) >= 1
           /\ Len(normalized[2]) >= 1
           /\ (ref = <<"A", "C", "G", "T">> /\ alt = <<"A", "C", "G", "A">>)
                 => normalized = << <<"T">>, <<"A">> >>
           /\ (ref = <<"G">> /\ alt = <<"T">>) => normalized = <<ref, alt>>

\* C26 witness: the call of the test suite, ('ACGT', 'ACGA'), gave ('T', 'A').
C26_Witness ==
    /\ ref = <<"A", "C", "G", "T">>
    /\ alt = <<"A", "C", "G", "A">>
    /\ normalized = << <<"T">>, <<"A">> >>

\* the Watson-Crick partner of a base; any other character is its own
Partner(c) ==
    IF c = "A" THEN "T" ELSE IF c = "T" THEN "A"
    ELSE IF c = "C" THEN "G" ELSE IF c = "G" THEN "C" ELSE c

\* C27: complement_allele gives a string of the same length whose character
\* at each position is the partner of the argument's character at that
\* position (A<->T, C<->G, '-' unchanged), in the same order; applied to its
\* own result it gives the argument back; 'ACGT' gives 'TGCA'.
C27_ComplementInvolution ==
    /\ Len(complemented) >= 1 =>
          /\ Len(complemented[1]) = Len(allele_in)
          /\ \A i \in 1..Len(allele_in) :
                /\ complemented[1][i] = Partner(allele_in[i])
                /\ allele_in[i] = "-" => complemented[1][i] = "-"
          /\ allele_in = <<"A", "C", "G", "T">>
                => complemented[1] = <<"T", "G", "C", "A">>
    /\ Len(complemented) = 2 => complemented[2] = allele_in

\* C27 witness: 'ACGT' gave 'TGCA', which gave 'ACGT'.
C27_Witness ==
    /\ allele_in = <<"A", "C", "G", "T">>
    /\ complemented = << <<"T", "G", "C", "A">>, <<"A", "C", "G", "T">> >>

\* ---------------------------------------------- claims on the application

\* the request passed the checks of its parameters and has been answered
Answered == response # NoResponse /\ ~Rejects(query)

\* C28: with no variant data loaded, a request whose parameters are
\* acceptable is answered 503: 'Pipeline has completed but no data found.'
\* when the status is 'completed', 'Pipeline has not been run yet.' when
\* there is no status
C28_NoDataAnswers503 ==
    (Answered /\ variants_df = "empty") =>
        /\ status_file = "completed" =>
              response = Answer(503, "Pipeline has completed but no data found.")
        /\ status_file = "absent" =>
              response = Answer(503, "Pipeline has not been run yet.")

\* ------------------------------------- claims on the limiter and its caller

\* urlopen calls made so far: those that have produced their outcome and
\* the one in progress
Issued == Len(responses) + (IF pc[RestCaller] = "urlopen" THEN 1 ELSE 0)

\* C29: every HTTP attempt, the first and every retry, comes after its own
\* completed _check_rate_limit call: the attempts issued never outnumber
\* the calls of the limiter that have returned, and the attempt in progress
\* is the one the latest of these calls admitted
C29_AttemptAfterAdmission ==
    /\ Issued <= calls[RestCaller]
    /\ pc[RestCaller] = "urlopen" => calls[RestCaller] = attempt

\* a retry is in progress after the limiter made its caller sleep
C29_Witness ==
    /\ pc[RestCaller] = "urlopen"
    /\ attempt >= 2
    /\ Len(responses) = attempt - 1
    /\ slept[RestCaller]

\* C30: the limiter's lock is held for the admit-or-wait decision only: no
\* thread is inside time.sleep of _check_rate_limit while it owns the lock
C30_NoSleepWithLock ==
    \A t \in Threads : pc[t] = "rl_sleep" => global_lock # t

\* C32: every thread that calls _check_rate_limit is admitted in the end
\* (its call returns), however many threads wait with it and however often
\* other callers arrive
C32_EveryCallerAdmitted ==
    \A t \in Threads : (pc[t] = "rl_wait") ~> (pc[t] = "rl_done")

\* C33: the limiter's state belongs to one client instance: an admission
\* through one client leaves the counter and the window start of every
\* other client as they were
C33_ClientsIndependent ==
    [][\A t \in Threads :
          (pc[t] = "rl_locked" /\ pc'[t] = "rl_done")
              => \A c \in Clients \ {ClientOf(t)} :
                    /\ ReqCountOf(c)' = ReqCountOf(c)
                    /\ LastResetOf(c)' = LastResetOf(c)]_vars

\* C35: whatever the server answers at each attempt (429, 5xx, network
\* errors, other statuses, successes, in any mix), one call of
\* perform_rest_action never makes more than `retries` HTTP attempts, and it
\* returns
C35_TerminatesWithinRetries ==
    /\ [](Issued <= retries)
    /\ <>HasReturned

\* a call has returned after using all its attempts on outcomes of
\* different kinds
C35_Witness ==
    /\ HasReturned
    /\ retries >= 2
    /\ Len(responses) = retries
    /\ \E i, j \in 1..Len(responses) :
          responses[i].kind # responses[j].kind

\* C36: every failing path of perform_rest_action hands its caller the
\* empty dict: a call that did not end on a successful answer (non-retryable
\* status, exhausted network errors, exhausted 5xx or 429 retries) has
\* returned {}, never None
C36_FailureIsEmptyDict ==
    (HasReturned /\ ~IsOk(Last(responses))) => result = Returned(EmptyDict)

\* ------------------------------------- claims on the threads of process_vcf

\* the id array, the gene array and the frequency map of a run
Aggregates == <<all_dbsnp_ids, all_gene_annotations, frequencies>>

\* a step of a worker thread of the pool: a transport call of some batch
WorkerStep ==
    /\ stage' = stage
    /\ \E k \in 1..Len(futures) : futures'[k].calls # futures[k].calls

\* a step of the main thread: it handles a future as_completed gave it, or
\* it moves to its next stage while no worker runs
MainStep ==
    \/ /\ stage' = stage
       /\ \E k \in 1..Len(futures) :
             futures[k].state = "done" /\ futures'[k].state = "consumed"
    \/ stage' # stage /\ Running = {}

\* C34: the id array, the gene array and the frequency map are never
\* touched by one thread while another changes them: the workers leave them
\* alone, and every change to them is made by the main thread in a step of
\* its own
C34_AggregatesMainThreadOnly ==
    [][/\ WorkerStep => UNCHANGED Aggregates
       /\ Aggregates' # Aggregates => (MainStep /\ ~WorkerStep)]_vars

\* a worker of the frequency pass is running while the main thread has
\* already stored ids and a frequency
C34_Witness ==
    /\ stage = "freq"
    /\ Running # {}
    /\ DOMAIN frequencies # {}
    /\ \E i \in 1..Len(all_dbsnp_ids) : all_dbsnp_ids[i] # "."

\* ------------------------------------------ claims on the completion order

RECURSIVE InBatchOrder(_, _, _)
\* the arrays when the responses of batches k, k + 1, ... are handled in
\* the order the batches were submitted
InBatchOrder(k, ids, genes) ==
    IF k > Len(answers) THEN [ids |-> ids, genes |-> genes]
    ELSE LET after == ApplyEntries(answers[k], 1, ids, genes)
         IN InBatchOrder(k + 1, after.ids, after.genes)

\* C37: with the input and the answer to each batch fixed, the result does
\* not depend on the order in which the batches complete: once every batch
\* is handled, the ids and genes are those of the run that handles the
\* batches in the order of their submission
C37_OrderIndependent ==
    (answers # <<>> /\ AllConsumed) =>
        [ids |-> all_dbsnp_ids, genes |-> all_gene_annotations]
            = InBatchOrder(1, [i \in 1..Len(records) |-> "."],
                           [i \in 1..Len(records) |-> "Intergenic"])

\* ------------------------------------------ claims on the transport calls

\* C31: a batch, of the consequence pass or of the frequency pass, makes
\* exactly one perform_rest_action call, whatever the call returns: a worker
\* that has finished its batch has made one call
C31_OneCallPerBatch ==
    \A k \in 1..Len(futures) :
        futures[k].state \in {"done", "consumed"} => futures[k].calls = 1

====
